---- MODULE Spec2Model ----
(***************************************************************************)
(* bin-file: positional typed binary file access (lib/file.js) and the     *)
(* struct builders Struct.Write / Struct.Read (lib/struct.js).             *)
(*                                                                         *)
(* The model follows the JavaScript event loop: every action is one        *)
(* run-to-completion step, either a synchronous API call made by the       *)
(* caller (a chaining method, write(cb), read(cb)) or the completion       *)
(* callback of one outstanding fs operation.  Offsets are 0-based as in    *)
(* the code; the file content is a 1-based sequence, so the byte at        *)
(* offset p is store[p + 1].                                               *)
(***************************************************************************)
EXTENDS Integers, Sequences, FiniteSets, TLC

VARIABLES
    store,      \* content of the open file (sequence of bytes)
    mode,       \* per executor: "none" | "write" | "read" (which constructor built it)
    position,   \* per executor: this.position
    queue,      \* per executor: this.queue (deferred field operations)
    calls,      \* invocations of write(cb) / read(cb): their closure state, and
                \* (history) how many descriptors had been chained at the call
    pending,    \* fs operations issued and not yet completed
    cbLog,      \* history: invocations of the callback given to write()/read()
    thrown,     \* history: exceptions thrown out of the library code
    opLog,      \* history: fs operations in the order they were issued
    fsLog,      \* history: fs operations in the order they completed, with the outcome
    start,      \* history: per executor, the position it was constructed with
    declared,   \* history: per executor, every descriptor chained, in order
    consumed,   \* history: per executor, bytes reported for each completed field
    store0,     \* history: the file content before any executor ran
    fd,         \* this.fd of the File: Null, or the descriptor fs.open gave
    openFds,    \* the descriptors of the file that are open in the process
    fsCalls,    \* fs.open / fs.close calls issued and not yet completed
    fileLog,    \* history: invocations of the callbacks given to open() / close()
    aborted     \* per executor: an exception ended the statement chaining on it

vars == <<store, mode, position, queue, calls, pending, cbLog, thrown, opLog, fsLog,
          start, declared, consumed, store0, fd, openFds, fsCalls, fileLog, aborted>>

\* The state of the File object and of the statements that build structs.
fileVars == <<fd, openFds, fsCalls, fileLog, aborted>>

(***************************************************************************)
(* Bounds of the model.                                                    *)
(***************************************************************************)
MaxFields == 2

\* The most calls of write() / read() made in a scenario that calls them
\* more than once.
MaxCalls == 2

Execs == {"A", "B"}

\* File content the scenarios start from, and the start offsets tried: a
\* write starts inside the file or past its end (where it leaves a hole), a
\* read starts inside the file.
InitialStore == <<0, 2, 1, 2, 0, 1>>
WStarts == {0, 7}
RStarts == {0, 1}

\* What an allocation of new Buffer(len) may hold where fs.read stored
\* nothing (a read that reaches the end of the file).
FillBytes == {0, 1}

(***************************************************************************)
(* Arithmetic helpers.                                                     *)
(***************************************************************************)
Min(a, b) == IF a < b THEN a ELSE b
Max(a, b) == IF a > b THEN a ELSE b

RECURSIVE Pow256(_)
Pow256(n) == IF n <= 0 THEN 1 ELSE 256 * Pow256(n - 1)

RECURSIVE SumSeq(_)
SumSeq(s) == IF s = <<>> THEN 0 ELSE Head(s) + SumSeq(Tail(s))

RECURSIVE Flatten(_)
Flatten(ss) == IF ss = <<>> THEN <<>> ELSE Head(ss) \o Flatten(Tail(ss))

(***************************************************************************)
(* Buffer integer codecs (Buffer.writeUIntBE and friends, as called by     *)
(* lib/file.js).  A buffer is a sequence of bytes.                         *)
(***************************************************************************)
\* buffer.writeUIntBE / writeIntBE: most significant byte first.  With the
\* floor division of \div and the non-negative % this is two's complement
\* for negative values.
WriteBE(value, len) == [i \in 1..len |-> (value \div Pow256(len - i)) % 256]

\* buffer.writeUIntLE / writeIntLE: least significant byte first.
WriteLE(value, len) == [i \in 1..len |-> (value \div Pow256(i - 1)) % 256]

\* The range check of the Buffer write methods (noAssert not given): the
\* call throws instead of writing.
\* A slip of the unsigned check below: only the upper limit is tested.
UIntInRangeNoFloor(value, len) == value <= Pow256(len) - 1

UIntInRange(value, len) == value >= 0 /\ value <= Pow256(len) - 1
IntInRange(value, len) ==
    /\ value >= -(Pow256(len) \div 2)
    /\ value <= (Pow256(len) \div 2) - 1

\* data.readUIntBE(0, len) / data.readUIntLE(0, len)
ReadUIntBE(data, len) == SumSeq([i \in 1..len |-> data[i] * Pow256(len - i)])
ReadUIntLE(data, len) == SumSeq([i \in 1..len |-> data[i] * Pow256(i - 1)])

\* data.readIntBE(0, len) / data.readIntLE(0, len): two's complement.
ToSigned(u, len) == IF u >= Pow256(len) \div 2 THEN u - Pow256(len) ELSE u
ReadIntBE(data, len) == ToSigned(ReadUIntBE(data, len), len)
ReadIntLE(data, len) == ToSigned(ReadUIntLE(data, len), len)

(***************************************************************************)
(* Text: a string is a sequence of code points; new Buffer(str) encodes    *)
(* it as UTF-8 and data.toString() decodes UTF-8, replacing what is not    *)
(* valid by U+FFFD.  The model covers the one-, two- and three-byte        *)
(* forms on encoding and the one- and two-byte forms on decoding (every    *)
(* other byte decodes to U+FFFD); the strings written stay below U+0800.   *)
(***************************************************************************)
Replacement == 65533

EncodeChar(cp) ==
    IF cp < 128 THEN <<cp>>
    ELSE IF cp < 2048 THEN <<192 + (cp \div 64), 128 + (cp % 64)>>
    ELSE <<224 + (cp \div 4096), 128 + ((cp \div 64) % 64), 128 + (cp % 64)>>

\* new Buffer(str)
Utf8Encode(str) == Flatten([i \in 1..Len(str) |-> EncodeChar(str[i])])

\* Buffer.byteLength(str)
ByteLength(str) == Len(Utf8Encode(str))

IsLead2(b) == b >= 194 /\ b <= 223
IsCont(b) == b >= 128 /\ b <= 191

Skip == -1
NotSkip(x) == x # Skip

\* What the byte at index i of data contributes to the decoded text.
DecodeAt(data, i) ==
    LET b == data[i] IN
    IF b < 128 THEN b
    ELSE IF IsLead2(b)
         THEN IF i < Len(data) /\ IsCont(data[i + 1])
              THEN (b - 192) * 64 + (data[i + 1] - 128)
              ELSE Replacement
    ELSE IF IsCont(b)
         THEN IF i > 1 /\ IsLead2(data[i - 1]) THEN Skip ELSE Replacement
    ELSE Replacement

\* data.toString()
Utf8Decode(data) == SelectSeq([i \in 1..Len(data) |-> DecodeAt(data, i)], NotSkip)

(***************************************************************************)
(* Field descriptors: what a chaining method captures in the closure it    *)
(* pushes.  data holds the bytes of a buffer or the code points of a       *)
(* string; value and len are the integer arguments; name is the result     *)
(* key of a read field.                                                    *)
(***************************************************************************)
WField(kind, data, value, len) ==
    [value |-> value, len |-> len, data |-> data, kind |-> kind, name |-> ""]
RField(kind, name, len) ==
    [value |-> 0, len |-> len, data |-> <<>>, kind |-> kind, name |-> name]

LenPrefixed == {"stringLenBE", "stringLenLE", "bufferLenBE", "bufferLenLE"}

\* Arguments the scenarios chain.
WBuffers == {<<>>, <<7, 255>>}
WStrings == {<<72, 105>>, <<233>>}
WIntArgs == {<<258, 2>>, <<-2, 1>>, <<256, 1>>}
WStringLenArgs == {<< <<72, 105>>, 1 >>, << <<233>>, 2 >>}
WBufferLenArgs == {<< <<7, 255>>, 2 >>, << <<>>, 1 >>}
RArgs == {<<"a", 1>>, <<"b", 2>>}

(***************************************************************************)
(* lib/file.js, write side: the buffer each File write method hands to     *)
(* File.write, and whether building it throws.                             *)
(***************************************************************************)
File_writeString(str) == Utf8Encode(str)
File_writeUIntBE(value, len) == WriteBE(value, len)
\* A slip of writeUIntLE below: buffer.writeUIntBE is called.
WriteUIntLEAsBE(value, len) == WriteBE(value, len)

File_writeUIntLE(value, len) == WriteLE(value, len)
File_writeIntBE(value, len) == WriteBE(value, len)
File_writeIntLE(value, len) == WriteLE(value, len)
\* A slip of writeStringLenBE below: the prefix holds str.length, the count
\* of characters, where Buffer.byteLength(str) is meant.
WriteStringLenBECharCount(str, len_size) == WriteBE(Len(str), len_size) \o Utf8Encode(str)

File_writeStringLenBE(str, len_size) == WriteBE(ByteLength(str), len_size) \o Utf8Encode(str)
File_writeStringLenLE(str, len_size) == WriteLE(ByteLength(str), len_size) \o Utf8Encode(str)
File_writeBufferLenBE(data, len_size) == WriteBE(Len(data), len_size) \o data
File_writeBufferLenLE(data, len_size) == WriteLE(Len(data), len_size) \o data

\* The queued closure of a Write field: the bytes it passes to the store.
WriteFn(d) ==
    CASE d.kind = "buffer" -> d.data
      [] d.kind = "string" -> File_writeString(d.data)
      [] d.kind = "uintBE" -> File_writeUIntBE(d.value, d.len)
      [] d.kind = "uintLE" -> File_writeUIntLE(d.value, d.len)
      [] d.kind = "intBE" -> File_writeIntBE(d.value, d.len)
      [] d.kind = "intLE" -> File_writeIntLE(d.value, d.len)
      [] d.kind = "stringLenBE" -> File_writeStringLenBE(d.data, d.len)
      [] d.kind = "stringLenLE" -> File_writeStringLenLE(d.data, d.len)
      [] d.kind = "bufferLenBE" -> File_writeBufferLenBE(d.data, d.len)
      [] d.kind = "bufferLenLE" -> File_writeBufferLenLE(d.data, d.len)

\* The queued closure of a Write field throws before any fs call: the
\* Buffer write method rejects the value (or the length) for the width.
WriteFnThrows(d) ==
    CASE d.kind \in {"uintBE", "uintLE"} -> ~UIntInRange(d.value, d.len)
      [] d.kind \in {"intBE", "intLE"} -> ~IntInRange(d.value, d.len)
      [] d.kind \in {"stringLenBE", "stringLenLE"} -> ~UIntInRange(ByteLength(d.data), d.len)
      [] d.kind \in {"bufferLenBE", "bufferLenLE"} -> ~UIntInRange(Len(d.data), d.len)
      [] OTHER -> FALSE

(***************************************************************************)
(* Values of the result mapping, tagged by their JavaScript type.          *)
(***************************************************************************)
IntVal(n) == [n |-> n, s |-> <<>>, t |-> "int"]
StrVal(s) == [n |-> 0, s |-> s, t |-> "str"]
BufVal(s) == [n |-> 0, s |-> s, t |-> "buf"]

EmptyResult == [n \in {} |-> IntVal(0)]

\* A slip of the assignment below: a key already set is kept.
SetResultKeepFirst(res, name, value) ==
    [n \in DOMAIN res \cup {name} |-> IF n \in DOMAIN res THEN res[n] ELSE value]

\* A slip of the assignment below: result.name = value, the literal key.
SetResultLiteralKey(res, name, value) ==
    [n \in DOMAIN res \cup {"key"} |-> IF n = "key" THEN value ELSE res[n]]

\* result[name] = value
SetResult(res, name, value) ==
    [n \in DOMAIN res \cup {name} |-> IF n = name THEN value ELSE res[n]]

\* A slip of the dispatch below: the integer reads use the other byte order.
FileReadValueSwapped(kind, data, len) ==
    CASE kind = "buffer" -> BufVal(data)
      [] kind = "string" -> StrVal(Utf8Decode(data))
      [] kind = "uintBE" -> IntVal(ReadUIntLE(data, len))
      [] kind = "uintLE" -> IntVal(ReadUIntBE(data, len))
      [] kind = "intBE" -> IntVal(ReadIntLE(data, len))
      [] kind = "intLE" -> IntVal(ReadIntBE(data, len))

\* lib/file.js, read side: what a fixed-width File read method passes on as
\* its value, from the buffer fs.read filled.
FileReadValue(kind, data, len) ==
    CASE kind = "buffer" -> BufVal(data)
      [] kind = "string" -> StrVal(Utf8Decode(data))
      [] kind = "uintBE" -> IntVal(ReadUIntBE(data, len))
      [] kind = "uintLE" -> IntVal(ReadUIntLE(data, len))
      [] kind = "intBE" -> IntVal(ReadIntBE(data, len))
      [] kind = "intLE" -> IntVal(ReadIntLE(data, len))

\* The length prefix as readStringLenBE/LE and readBufferLenBE/LE decode it.
FileReadPrefix(kind, data, len_size) ==
    IF kind \in {"stringLenBE", "bufferLenBE"}
    THEN ReadUIntBE(data, len_size)
    ELSE ReadUIntLE(data, len_size)

(***************************************************************************)
(* The byte store: fs.write and fs.read at a position of the open file.    *)
(***************************************************************************)
\* File content after fs.write(fd, data, 0, data.length, pos): a write past
\* the end leaves a hole of zero bytes.
FsWrite(s, pos, data) ==
    IF data = <<>> THEN s
    ELSE [i \in 1..Max(Len(s), pos + Len(data)) |->
            IF i > pos /\ i <= pos + Len(data) THEN data[i - pos]
            ELSE IF i <= Len(s) THEN s[i]
            ELSE 0]

\* fs.read(fd, buffer, 0, len, pos): the count is short at the end of file.
FsBytesRead(s, pos, len) == Min(len, Max(0, Len(s) - pos))

\* The buffer after the read: the bytes read, then whatever the allocation
\* held (fill).
FsReadBuffer(s, pos, len, fill) ==
    [i \in 1..len |-> IF i <= FsBytesRead(s, pos, len) THEN s[pos + i] ELSE fill]

(***************************************************************************)
(* State after File.open has called back: the file is open, and no struct  *)
(* exists.                                                                 *)
(***************************************************************************)
\* this.fd = null, and the descriptor the first fs.open of a process yields
\* (0, 1 and 2 being the standard streams).
Null == 0
FirstFd == 3

Init ==
    /\ store = InitialStore
    /\ store0 = InitialStore
    /\ mode = [e \in Execs |-> "none"]
    /\ position = [e \in Execs |-> 0]
    /\ queue = [e \in Execs |-> <<>>]
    /\ calls = <<>>
    /\ pending = {}
    /\ cbLog = <<>>
    /\ thrown = <<>>
    /\ opLog = <<>>
    /\ fsLog = <<>>
    /\ start = [e \in Execs |-> 0]
    /\ declared = [e \in Execs |-> <<>>]
    /\ consumed = [e \in Execs |-> <<>>]
    /\ fd = FirstFd
    /\ openFds = {FirstFd}
    /\ fsCalls = {}
    /\ fileLog = <<>>
    /\ aborted = [e \in Execs |-> FALSE]

\* Whether write()/read() has been invoked on executor e.
Called(e) == \E c \in 1..Len(calls) : calls[c].ex = e

(***************************************************************************)
(* File.createWriteStruct(pos) / File.createReadStruct(pos) and the        *)
(* constructors Write(file, position) / Read(file, position).              *)
(***************************************************************************)
\* JavaScript values of this.position that are not offsets: undefined (no
\* argument was given) and NaN (undefined + a number).
Undefined == -1
NaN == -2

\* pos || 0
OrZero(pos) == IF pos = Undefined \/ pos = NaN THEN 0 ELSE pos

\* A slip of the constructors below: the cursor is kept in a variable all
\* structs share instead of in a field of the struct.
ConstructSharedCursor(e, m, pos) ==
    /\ mode[e] = "none"
    /\ mode' = [mode EXCEPT ![e] = m]
    /\ position' = [x \in Execs |-> pos]
    /\ queue' = [queue EXCEPT ![e] = <<>>]
    /\ start' = [start EXCEPT ![e] = pos]
    /\ UNCHANGED <<store, store0, calls, pending, cbLog, thrown, opLog, fsLog, declared,
                   consumed>>
    /\ UNCHANGED fileVars

Construct(e, m, pos) ==
    /\ mode[e] = "none"
    /\ mode' = [mode EXCEPT ![e] = m]
    /\ position' = [position EXCEPT ![e] = pos]
    /\ queue' = [queue EXCEPT ![e] = <<>>]
    /\ start' = [start EXCEPT ![e] = pos]
    /\ UNCHANGED <<store, store0, calls, pending, cbLog, thrown, opLog, fsLog, declared,
                   consumed>>
    /\ UNCHANGED fileVars

\* Write(file, position): this.position = position.
Struct_Write(e, pos) == Construct(e, "write", pos)

\* Read(file, position): this.position = position || 0.
Struct_Read(e, pos) == Construct(e, "read", OrZero(pos))

\* new Struct.Write(this, pos || 0) / new Struct.Read(this, pos || 0)
CreateWriteStruct(e, pos) == Struct_Write(e, OrZero(pos))
CreateReadStruct(e, pos) == Struct_Read(e, OrZero(pos))

(***************************************************************************)
(* The chaining methods: this.queue.push(closure); return this.            *)
(***************************************************************************)
\* A slip of the chaining methods below: this.queue.unshift(closure).
PushFront(e, m, d) ==
    /\ mode[e] = m
    /\ Len(queue[e]) < MaxFields
    /\ queue' = [queue EXCEPT ![e] = <<d>> \o @]
    /\ declared' = [declared EXCEPT ![e] = Append(@, d)]
    /\ UNCHANGED <<store, store0, mode, position, calls, pending, cbLog, thrown,
                   opLog, fsLog, start, consumed>>
    /\ UNCHANGED fileVars

Push(e, m, d) ==
    /\ mode[e] = m
    /\ Len(queue[e]) < MaxFields
    /\ queue' = [queue EXCEPT ![e] = Append(@, d)]
    /\ declared' = [declared EXCEPT ![e] = Append(@, d)]
    /\ UNCHANGED <<store, store0, mode, position, calls, pending, cbLog, thrown,
                   opLog, fsLog, start, consumed>>
    /\ UNCHANGED fileVars

Write_buffer(e) == \E b \in WBuffers : Push(e, "write", WField("buffer", b, 0, 0))
Write_string(e) == \E s \in WStrings : Push(e, "write", WField("string", s, 0, 0))
Write_stringLenBE(e) ==
    \E a \in WStringLenArgs : Push(e, "write", WField("stringLenBE", a[1], 0, a[2]))
Write_stringLenLE(e) ==
    \E a \in WStringLenArgs : Push(e, "write", WField("stringLenLE", a[1], 0, a[2]))
Write_bufferLenBE(e) ==
    \E a \in WBufferLenArgs : Push(e, "write", WField("bufferLenBE", a[1], 0, a[2]))
Write_bufferLenLE(e) ==
    \E a \in WBufferLenArgs : Push(e, "write", WField("bufferLenLE", a[1], 0, a[2]))
Write_uintBE(e) == \E a \in WIntArgs : Push(e, "write", WField("uintBE", <<>>, a[1], a[2]))
Write_uintLE(e) == \E a \in WIntArgs : Push(e, "write", WField("uintLE", <<>>, a[1], a[2]))
Write_intBE(e) == \E a \in WIntArgs : Push(e, "write", WField("intBE", <<>>, a[1], a[2]))
Write_intLE(e) == \E a \in WIntArgs : Push(e, "write", WField("intLE", <<>>, a[1], a[2]))

Read_buffer(e) == \E a \in RArgs : Push(e, "read", RField("buffer", a[1], a[2]))
Read_string(e) == \E a \in RArgs : Push(e, "read", RField("string", a[1], a[2]))
Read_uintBE(e) == \E a \in RArgs : Push(e, "read", RField("uintBE", a[1], a[2]))
Read_uintLE(e) == \E a \in RArgs : Push(e, "read", RField("uintLE", a[1], a[2]))
Read_intBE(e) == \E a \in RArgs : Push(e, "read", RField("intBE", a[1], a[2]))
Read_intLE(e) == \E a \in RArgs : Push(e, "read", RField("intLE", a[1], a[2]))
Read_stringLenBE(e) ==
    \E a \in RArgs : Push(e, "read", RField("stringLenBE", a[1], a[2]))
Read_stringLenLE(e) ==
    \E a \in RArgs : Push(e, "read", RField("stringLenLE", a[1], a[2]))
Read_bufferLenBE(e) ==
    \E a \in RArgs : Push(e, "read", RField("bufferLenBE", a[1], a[2]))
Read_bufferLenLE(e) ==
    \E a \in RArgs : Push(e, "read", RField("bufferLenLE", a[1], a[2]))

(***************************************************************************)
(* Execution: the closure next of write(cb) / read(cb).                    *)
(***************************************************************************)
\* The fs operation the queued closure d issues when run with
\* this.position = pos, for invocation c; idx is the field's place in the
\* declaration order.  A length-prefixed read starts with its prefix.
FieldOp(c, idx, m, d, pos) ==
    [len |-> IF m = "write" THEN Len(WriteFn(d)) ELSE d.len,
     data |-> IF m = "write" THEN WriteFn(d) ELSE <<>>,
     kind |-> d.kind, name |-> d.name, pos |-> pos, idx |-> idx, call |-> c,
     oper |-> m,
     phase |-> IF m = "read" /\ d.kind \in LenPrefixed THEN "prefix" ELSE "single",
     lenBytesRead |-> 0]

\* Slips of the cursor update: the position is left alone, or assigned
\* instead of added to.
AdvanceNot(pos, n) == pos
AdvanceAssign(pos, n) == n

\* this.position += written  /  this.position += bytesRead
Advance(pos, n) == IF pos = Undefined \/ pos = NaN THEN NaN ELSE pos + n

\* makeCallback's wrapper: if (err) throw err.  "" stands for no error.
NoError == ""
MakeCallbackThrows(err) == err # NoError

\* A slip of next() below: it does not wait for the field's callback and
\* runs every queued closure at once.
DoNextEager(cs, c, pos, res, pend) ==
    LET e == cs[c].ex
        idx == Len(declared[e]) - Len(queue[e]) + 1
        ops == [i \in 1..Len(queue[e]) |->
                   FieldOp(c, idx + i - 1, mode[e], queue[e][i], pos)]
    IN  /\ position' = [position EXCEPT ![e] = pos]
        /\ queue' = [queue EXCEPT ![e] = <<>>]
        /\ thrown' = thrown
        /\ IF queue[e] = <<>>
           THEN /\ cbLog' = Append(cbLog, [position |-> pos, call |-> c, err |-> NoError,
                                           given |-> TRUE, result |-> res])
                /\ calls' = [cs EXCEPT ![c].status = "done", ![c].result = res]
                /\ pending' = pend
                /\ opLog' = opLog
           ELSE /\ cbLog' = cbLog
                /\ calls' = [cs EXCEPT ![c].result = res]
                /\ pending' = pend \cup {ops[i] : i \in 1..Len(ops)}
                /\ opLog' = opLog \o ops

\* var fn = this.queue.shift(); if (!fn) return cb(null, ...); fn(...).
\* cs is the invocation list with c in it; pos and res are this.position and
\* result as the caller of next() left them; pend is the set of operations
\* still outstanding.
DoNext(cs, c, pos, res, pend) ==
    LET e == cs[c].ex
        idx == Len(declared[e]) - Len(queue[e]) + 1
    IN  /\ position' = [position EXCEPT ![e] = pos]
        /\ IF queue[e] = <<>>
           THEN /\ queue' = queue
                /\ cbLog' = Append(cbLog, [position |-> pos, call |-> c, err |-> NoError,
                                           given |-> TRUE, result |-> res])
                /\ calls' = [cs EXCEPT ![c].status = "done", ![c].result = res]
                /\ pending' = pend
                /\ UNCHANGED <<thrown, opLog>>
           ELSE LET fn == Head(queue[e]) IN
                /\ queue' = [queue EXCEPT ![e] = Tail(@)]
                /\ cbLog' = cbLog
                /\ IF mode[e] = "write" /\ WriteFnThrows(fn)
                   THEN /\ thrown' = Append(thrown, [idx |-> idx, call |-> c,
                                                     error |-> "RangeError"])
                        /\ calls' = [cs EXCEPT ![c].status = "thrown",
                                               ![c].result = res]
                        /\ pending' = pend
                        /\ opLog' = opLog
                   ELSE LET o == FieldOp(c, idx, mode[e], fn, pos) IN
                        /\ pending' = pend \cup {o}
                        /\ opLog' = Append(opLog, o)
                        /\ calls' = [cs EXCEPT ![c].result = res]
                        /\ thrown' = thrown

\* Write.prototype.write(cb) / Read.prototype.read(cb): a new invocation
\* with its own cb (and, for read, its own result = {}), then next().  upto
\* is history: the number of descriptors chained so far.
Invoke(e, m) ==
    /\ mode[e] = m
    /\ DoNext(Append(calls, [ex |-> e, result |-> EmptyResult, status |-> "running",
                             upto |-> Len(declared[e])]),
              Len(calls) + 1, position[e], EmptyResult, pending)
    /\ UNCHANGED <<store, store0, mode, fsLog, start, declared, consumed>>
    /\ UNCHANGED fileVars

Write_write(e) == Invoke(e, "write")
Read_read(e) == Invoke(e, "read")

(***************************************************************************)
(* Completion of an outstanding fs operation: the callback chain from      *)
(* fs.write / fs.read through the makeCallback wrappers of lib/file.js     *)
(* into the closure of write() / read().                                   *)
(***************************************************************************)
\* The error an fs operation fails with.
IOError == "IOError"

\* The record of the completion of operation o.
Completed(o, ok) == Append(fsLog, [oper |-> o, ok |-> ok])

\* A slip of the error path below: the error is dropped and the run goes on
\* with the next field.
FailSwallowed(o, err) ==
    /\ DoNext(calls, o.call, position[calls[o.call].ex], calls[o.call].result,
              pending \ {o})
    /\ UNCHANGED <<store, store0, mode, start, declared, consumed>>
    /\ UNCHANGED fileVars

\* A slip of the error path below: the cursor is put back to where the
\* struct started.
FailRewinds(o, err) ==
    /\ pending' = pending \ {o}
    /\ thrown' = Append(thrown, [idx |-> o.idx, call |-> o.call, error |-> err])
    /\ calls' = [calls EXCEPT ![o.call].status = "thrown"]
    /\ cbLog' = cbLog
    /\ position' = [position EXCEPT ![calls[o.call].ex] = start[calls[o.call].ex]]
    /\ UNCHANGED <<store, store0, mode, queue, opLog, start, declared, consumed>>
    /\ UNCHANGED fileVars

\* An error reaches a makeCallback wrapper: it is thrown out of the fs
\* callback, and nothing of the invocation runs again.  (Were it passed on,
\* the closure in write()/read() would run "if (err) return cb(err)".)
Fail(o, err) ==
    /\ pending' = pending \ {o}
    /\ IF MakeCallbackThrows(err)
       THEN /\ thrown' = Append(thrown, [idx |-> o.idx, call |-> o.call, error |-> err])
            /\ calls' = [calls EXCEPT ![o.call].status = "thrown"]
            /\ cbLog' = cbLog
       ELSE /\ cbLog' = Append(cbLog, [position |-> 0, call |-> o.call, err |-> err,
                                       given |-> FALSE, result |-> EmptyResult])
            /\ calls' = [calls EXCEPT ![o.call].status = "failed"]
            /\ thrown' = thrown
    /\ UNCHANGED <<store, store0, mode, position, queue, opLog, start, declared, consumed>>
    /\ UNCHANGED fileVars

\* fs.write fails.
FsWriteFail(o) ==
    /\ o \in pending
    /\ o.oper = "write"
    /\ fsLog' = Completed(o, FALSE)
    /\ Fail(o, IOError)

\* fs.read fails (the prefix or payload read of a length-prefixed field
\* included).
FsReadFail(o) ==
    /\ o \in pending
    /\ o.oper = "read"
    /\ fsLog' = Completed(o, FALSE)
    /\ Fail(o, IOError)

\* The bytes written so far by fs.write calls that were given no offset.
RECURSIVE UnpositionedBytes(_)
UnpositionedBytes(log) ==
    IF log = <<>> THEN 0
    ELSE UnpositionedBytes(Tail(log))
         + (IF Head(log).ok /\ Head(log).oper.oper = "write" /\ Head(log).oper.pos < 0
            THEN Len(Head(log).oper.data) ELSE 0)

\* Where fs.write(fd, data, 0, data.length, pos) puts the data.  Given an
\* offset, there.  Given undefined, at the descriptor's own file offset: the
\* bytes written that way so far, or the end of the file when it was opened
\* for appending.  Given NaN, the runtime either does the same or takes the
\* offset to be 0.
WriteOffsets(s, pos) ==
    IF pos = Undefined THEN {UnpositionedBytes(fsLog), Len(s)}
    ELSE IF pos = NaN THEN {UnpositionedBytes(fsLog), Len(s), 0}
    ELSE {pos}

\* fs.write succeeds: File.write's wrapper passes (null, written) to the
\* closure in write(): this.position += written; next().
FsWriteDone(o) ==
    /\ o \in pending
    /\ o.oper = "write"
    /\ fsLog' = Completed(o, TRUE)
    /\ LET e == calls[o.call].ex
           written == Len(o.data)
       IN  /\ \E p \in WriteOffsets(store, o.pos) : store' = FsWrite(store, p, o.data)
           /\ consumed' = [consumed EXCEPT ![e] = Append(@, written)]
           /\ DoNext(calls, o.call, Advance(position[e], written),
                     calls[o.call].result, pending \ {o})
    /\ UNCHANGED <<store0, mode, start, declared>>
    /\ UNCHANGED fileVars

\* The closure in read(): this.position += bytesRead; result[name] = value;
\* next().
ReadFieldDone(o, value, bytesRead) ==
    LET e == calls[o.call].ex IN
    /\ consumed' = [consumed EXCEPT ![e] = Append(@, bytesRead)]
    /\ DoNext(calls, o.call, Advance(position[e], bytesRead),
              SetResult(calls[o.call].result, o.name, value), pending \ {o})

\* fs.read succeeds for a fixed-width field (File.read, readString,
\* readUIntBE, readUIntLE, readIntBE, readIntLE).
FsReadDone(o) ==
    /\ o \in pending
    /\ o.oper = "read"
    /\ o.phase = "single"
    /\ fsLog' = Completed(o, TRUE)
    /\ \E fill \in FillBytes :
          ReadFieldDone(o, FileReadValue(o.kind, FsReadBuffer(store, o.pos, o.len, fill), o.len),
                        FsBytesRead(store, o.pos, o.len))
    /\ UNCHANGED <<store, store0, mode, start, declared>>
    /\ UNCHANGED fileVars

\* The payload read a length-prefixed read issues once its prefix is in:
\* this.readString / this.read at pos + lenBytesRead for len bytes.
PayloadOp(o, len, lenBytesRead) ==
    [o EXCEPT !.phase = "payload", !.pos = o.pos + lenBytesRead, !.len = len,
              !.lenBytesRead = lenBytesRead]

\* fs.read succeeds for the length prefix of readStringLenBE/LE or
\* readBufferLenBE/LE: the payload read is issued.
FsReadPrefixDone(o) ==
    /\ o \in pending
    /\ o.oper = "read"
    /\ o.phase = "prefix"
    /\ fsLog' = Completed(o, TRUE)
    /\ \E fill \in FillBytes :
          LET len == FileReadPrefix(o.kind, FsReadBuffer(store, o.pos, o.len, fill), o.len)
              p == PayloadOp(o, len, FsBytesRead(store, o.pos, o.len))
          IN  /\ pending' = (pending \ {o}) \cup {p}
              /\ opLog' = Append(opLog, p)
    /\ UNCHANGED <<store, store0, mode, position, queue, calls, cbLog, thrown, start,
                   declared, consumed>>
    /\ UNCHANGED fileVars

\* A slip of the count below: the prefix bytes are left out.
PayloadBytesOnly(lenBytesRead, strBytesRead) == strBytesRead

\* The byte count a length-prefixed read reports: lenBytesRead + strBytesRead.
LenPrefixedBytesRead(lenBytesRead, strBytesRead) == lenBytesRead + strBytesRead

\* fs.read succeeds for the payload of readStringLenBE/LE: the text and
\* lenBytesRead + strBytesRead go to the closure in read().
FsReadStringPayloadDone(o) ==
    /\ o \in pending
    /\ o.oper = "read"
    /\ o.phase = "payload"
    /\ o.kind \in {"stringLenBE", "stringLenLE"}
    /\ fsLog' = Completed(o, TRUE)
    /\ \E fill \in FillBytes :
          ReadFieldDone(o, StrVal(Utf8Decode(FsReadBuffer(store, o.pos, o.len, fill))),
                        LenPrefixedBytesRead(o.lenBytesRead,
                                             FsBytesRead(store, o.pos, o.len)))
    /\ UNCHANGED <<store, store0, mode, start, declared>>
    /\ UNCHANGED fileVars

\* fs.read succeeds for the payload of readBufferLenBE/LE: the callback
\* evaluates cb(err, str, ...) where no str is in scope, a ReferenceError.
FsReadBufferPayloadDone(o) ==
    /\ o \in pending
    /\ o.oper = "read"
    /\ o.phase = "payload"
    /\ o.kind \in {"bufferLenBE", "bufferLenLE"}
    /\ fsLog' = Completed(o, TRUE)
    /\ pending' = pending \ {o}
    /\ thrown' = Append(thrown, [idx |-> o.idx, call |-> o.call, error |-> "ReferenceError"])
    /\ calls' = [calls EXCEPT ![o.call].status = "thrown"]
    /\ UNCHANGED <<store, store0, mode, position, queue, cbLog, opLog, start, declared,
                   consumed>>
    /\ UNCHANGED fileVars

FsComplete ==
    \E o \in pending :
        \/ FsWriteDone(o)
        \/ FsWriteFail(o)
        \/ FsReadDone(o)
        \/ FsReadPrefixDone(o)
        \/ FsReadStringPayloadDone(o)
        \/ FsReadBufferPayloadDone(o)
        \/ FsReadFail(o)

(***************************************************************************)
(* Spec: one struct on the file, a Write or a Read, built by chaining and  *)
(* then executed once, against a store whose operations may fail.          *)
(***************************************************************************)
Chain(e) ==
    \/ Write_buffer(e)
    \/ Write_string(e)
    \/ Write_stringLenBE(e)
    \/ Write_stringLenLE(e)
    \/ Write_bufferLenBE(e)
    \/ Write_bufferLenLE(e)
    \/ Write_uintBE(e)
    \/ Write_uintLE(e)
    \/ Write_intBE(e)
    \/ Write_intLE(e)
    \/ Read_buffer(e)
    \/ Read_string(e)
    \/ Read_uintBE(e)
    \/ Read_uintLE(e)
    \/ Read_intBE(e)
    \/ Read_intLE(e)
    \/ Read_stringLenBE(e)
    \/ Read_stringLenLE(e)
    \/ Read_bufferLenBE(e)
    \/ Read_bufferLenLE(e)

Next ==
    \/ \E pos \in WStarts : CreateWriteStruct("A", pos)
    \/ \E pos \in RStarts : CreateReadStruct("A", pos)
    \/ ~Called("A") /\ Chain("A")
    \/ ~Called("A") /\ Write_write("A")
    \/ ~Called("A") /\ Read_read("A")
    \/ FsComplete

Spec == Init /\ [][Next]_vars

(***************************************************************************)
(* SpecRT: a Write struct "A" is built and run against a store whose       *)
(* operations succeed; once its callback has run, a Read struct "B" is     *)
(* created at the same offset, chained with the same kinds and widths, and *)
(* run.                                                                    *)
(***************************************************************************)
\* Result keys of the fields read back, by place in the declaration.
RTNames == <<"f1", "f2", "f3", "f4">>

\* The width argument that reads back what the Write field d emits: the
\* byte count for buffer and string, the declared width otherwise.
MirrorLen(d) ==
    CASE d.kind = "buffer" -> Len(d.data)
      [] d.kind = "string" -> ByteLength(d.data)
      [] OTHER -> d.len

\* The Read chaining call matching the i-th field of "A".
Mirror(i) == RField(declared["A"][i].kind, RTNames[i], MirrorLen(declared["A"][i]))

\* Whether the write() of "A" has called back with success.
WriteDone ==
    \E c \in 1..Len(calls) : calls[c].ex = "A" /\ calls[c].status = "done"

RT_CreateReadStruct ==
    /\ WriteDone
    /\ CreateReadStruct("B", start["A"])

RT_ReadChain ==
    /\ ~Called("B")
    /\ Len(declared["B"]) < Len(declared["A"])
    /\ Push("B", "read", Mirror(Len(declared["B"]) + 1))

RT_Read ==
    /\ ~Called("B")
    /\ Len(declared["B"]) = Len(declared["A"])
    /\ Read_read("B")

RT_FsComplete ==
    \E o \in pending :
        \/ FsWriteDone(o)
        \/ FsReadDone(o)
        \/ FsReadPrefixDone(o)
        \/ FsReadStringPayloadDone(o)
        \/ FsReadBufferPayloadDone(o)

NextRT ==
    \/ \E pos \in WStarts : CreateWriteStruct("A", pos)
    \/ ~Called("A") /\ Chain("A")
    \/ ~Called("A") /\ Write_write("A")
    \/ RT_CreateReadStruct
    \/ RT_ReadChain
    \/ RT_Read
    \/ RT_FsComplete

SpecRT == Init /\ [][NextRT]_vars

(***************************************************************************)
(* SpecLate: one struct on the file, used without regard to the order      *)
(* build-then-run: chaining methods are called before, during and after a  *)
(* run, and write() / read() is called again while a run is in progress    *)
(* or after it has ended (an exception thrown out of the library having    *)
(* been caught by the caller).                                             *)
(***************************************************************************)
\* The chaining calls of these scenarios: a field that is written as it
\* is, one whose value may be out of range, a fixed-width read and a
\* length-prefixed read.
LateChain(e) ==
    \/ Write_buffer(e)
    \/ Write_uintBE(e)
    \/ Read_uintBE(e)
    \/ Read_stringLenBE(e)

\* The start offset of these scenarios.
LateStarts == {1}

NextLate ==
    \/ \E pos \in LateStarts : CreateWriteStruct("A", pos)
    \/ \E pos \in LateStarts : CreateReadStruct("A", pos)
    \/ Len(declared["A"]) < MaxFields /\ LateChain("A")
    \/ Len(calls) < MaxCalls /\ Write_write("A")
    \/ Len(calls) < MaxCalls /\ Read_read("A")
    \/ FsComplete

SpecLate == Init /\ [][NextLate]_vars

(***************************************************************************)
(* SpecDefault: one struct created without a starting offset, through      *)
(* file.createWriteStruct() / file.createReadStruct() or by calling the    *)
(* constructors Struct.Write(file) / Struct.Read(file), then built and     *)
(* executed once.                                                          *)
(***************************************************************************)
NextDefault ==
    \/ CreateWriteStruct("A", Undefined)
    \/ CreateReadStruct("A", Undefined)
    \/ Struct_Write("A", Undefined)
    \/ Struct_Read("A", Undefined)
    \/ ~Called("A") /\ Chain("A")
    \/ ~Called("A") /\ Write_write("A")
    \/ ~Called("A") /\ Read_read("A")
    \/ FsComplete

SpecDefault == Init /\ [][NextDefault]_vars

(***************************************************************************)
(* SpecRerun: one struct, built by chaining, on which write() / read() is  *)
(* then called more than once: while a run is in progress, or after it     *)
(* has ended (an exception thrown out of the library having been caught    *)
(* by the caller).                                                         *)
(***************************************************************************)
NextRerun ==
    \/ \E pos \in LateStarts : CreateWriteStruct("A", pos)
    \/ \E pos \in LateStarts : CreateReadStruct("A", pos)
    \/ ~Called("A") /\ LateChain("A")
    \/ Len(calls) < MaxCalls /\ Write_write("A")
    \/ Len(calls) < MaxCalls /\ Read_read("A")
    \/ FsComplete

SpecRerun == Init /\ [][NextRerun]_vars

(***************************************************************************)
(* Notions the properties share.                                           *)
(***************************************************************************)
\* The fs operations that open a field of executor e (for a length-prefixed
\* read, its prefix read), in the order they were issued.
FieldOps(e) ==
    LET Opens(o) == calls[o.call].ex = e /\ o.phase # "payload"
    IN  SelectSeq(opLog, Opens)

\* start + the bytes the store reported for the fields before field n.
OffsetOf(e, n) == start[e] + SumSeq(SubSeq(consumed[e], 1, n - 1))

\* The bytes a Write struct lays out for its first k fields.
Layout(e, k) == Flatten([n \in 1..k |-> WriteFn(declared[e][n])])

\* Successful completions reported to the callback of a write() / read().
Successes(m) ==
    {i \in 1..Len(cbLog) : cbLog[i].err = NoError /\ mode[calls[cbLog[i].call].ex] = m}

\* Failed store operations of write() / read() invocations.
StoreFailures(m) == {i \in 1..Len(fsLog) : ~fsLog[i].ok /\ fsLog[i].oper.oper = m}

\* The operations of executor e that are outstanding.
PendingOf(e) == {o \in pending : calls[o.call].ex = e}

\* The places in opLog of the operations issued for executor e.
IssuedFor(e) == {j \in 1..Len(opLog) : calls[opLog[j].call].ex = e}

(***************************************************************************)
(* C1: during a run of a Write or Read executor the fields are issued to   *)
(* the store in declaration order, and the operation of field n is issued  *)
(* at start + the sum of the bytes the store reported for fields 1..n-1.   *)
(***************************************************************************)
C1_DeclarationOrderAndOffsets ==
    \A e \in Execs :
        \A n \in 1..Len(FieldOps(e)) :
            LET o == FieldOps(e)[n] IN
            /\ o.idx = n
            /\ n <= Len(declared[e])
            /\ o.kind = declared[e][n].kind
            /\ o.name = declared[e][n].name
            /\ o.oper = "write" => o.data = WriteFn(declared[e][n])
            /\ Len(consumed[e]) >= n - 1
            /\ o.pos = OffsetOf(e, n)

\* Both kinds of executor get to their second field after a first field
\* that consumed bytes.
C1_Witness ==
    \E e \in Execs :
        /\ Len(FieldOps(e)) = 2
        /\ consumed[e] # <<>>
        /\ consumed[e][1] > 0
        /\ start[e] > 0
        /\ declared[e][2].kind \in LenPrefixed

(***************************************************************************)
(* C2: when all fields execute successfully, the final offset reported by  *)
(* write() and read() is start + the sum of the bytes each field consumed: *)
(* for a written field the length of its encoding (for a length-prefixed   *)
(* one the prefix width + the payload length), for a read field its width  *)
(* (for a length-prefixed one the prefix width + the prefix value), cut    *)
(* where the file ends.                                                    *)
(***************************************************************************)
\* The byte length of the payload of written field d.
PayloadLength(d) ==
    IF d.kind \in {"string", "stringLenBE", "stringLenLE"}
    THEN ByteLength(d.data)
    ELSE Len(d.data)

\* The width of written field d.
WriteWidth(d) ==
    IF d.kind \in LenPrefixed THEN d.len + PayloadLength(d)
    ELSE IF d.kind \in {"buffer", "string"} THEN PayloadLength(d)
    ELSE d.len

\* The width of read field d at offset off of file content s, where the
\* prefix of a length-prefixed field lies inside the file.
ReadWidth(s, d, off) ==
    IF d.kind \in LenPrefixed
    THEN d.len + FileReadPrefix(d.kind, SubSeq(s, off + 1, off + d.len), d.len)
    ELSE d.len

\* The bytes read field d consumes at offset off: its width, or what is
\* left of the file.
ReadConsumed(s, d, off) ==
    IF d.kind \in LenPrefixed /\ off + d.len > Len(s)
    THEN Max(0, Len(s) - off)
    ELSE Min(ReadWidth(s, d, off), Max(0, Len(s) - off))

C2_FinalOffset ==
    /\ \A i \in Successes("write") :
          LET e == calls[cbLog[i].call].ex IN
          /\ Len(consumed[e]) = Len(declared[e])
          /\ \A n \in 1..Len(declared[e]) : consumed[e][n] = WriteWidth(declared[e][n])
          /\ cbLog[i].position = start[e] + SumSeq(consumed[e])
    /\ \A i \in Successes("read") :
          LET e == calls[cbLog[i].call].ex IN
          /\ Len(consumed[e]) = Len(declared[e])
          /\ \A n \in 1..Len(declared[e]) :
                consumed[e][n] = ReadConsumed(store, declared[e][n], OffsetOf(e, n))
          /\ cbLog[i].position = start[e] + SumSeq(consumed[e])

\* A successful struct that mixes a fixed-width field with a
\* length-prefixed one whose payload is not empty.
C2_Witness ==
    \E i \in Successes("write") \cup Successes("read") :
        LET e == calls[cbLog[i].call].ex IN
        /\ Len(declared[e]) = 2
        /\ declared[e][1].kind \notin LenPrefixed
        /\ declared[e][2].kind \in LenPrefixed
        /\ consumed[e][1] > 0
        /\ consumed[e][2] > declared[e][2].len
        /\ start[e] > 0

(***************************************************************************)
(* C3: after a successful write() of a struct started at start, the file   *)
(* bytes in [start, finalOffset) are the concatenation of the field        *)
(* encodings in declared order, and no byte outside that range has been    *)
(* written (a hole before start reads as zeros).                           *)
(***************************************************************************)
C3_ContiguousLayout ==
    \A i \in Successes("write") :
        LET e == calls[cbLog[i].call].ex
            bytes == Layout(e, Len(declared[e]))
            final == cbLog[i].position
        IN  /\ final = start[e] + Len(bytes)
            /\ bytes # <<>> => Len(store) = Max(Len(store0), final)
            /\ bytes = <<>> => store = store0
            /\ \A p \in 1..Len(store) :
                  store[p] = IF p > start[e] /\ p <= final THEN bytes[p - start[e]]
                             ELSE IF p <= Len(store0) THEN store0[p]
                             ELSE 0

\* Two non-empty fields written past the end of the file.
C3_Witness ==
    \E i \in Successes("write") :
        LET e == calls[cbLog[i].call].ex IN
        /\ Len(declared[e]) = 2
        /\ consumed[e][1] > 0
        /\ consumed[e][2] > 0
        /\ start[e] > Len(store0)

(***************************************************************************)
(* C4: round trip.  For any sequence of field descriptors with in-range    *)
(* values, writing the struct at offset P and then reading the same kinds  *)
(* and widths at offset P yields exactly the original values under the     *)
(* given names, and the same final offset.                                 *)
(***************************************************************************)
\* The value the Write field d was declared with, as a read reports it.
Original(d) ==
    CASE d.kind \in {"buffer", "bufferLenBE", "bufferLenLE"} -> BufVal(d.data)
      [] d.kind \in {"string", "stringLenBE", "stringLenLE"} -> StrVal(d.data)
      [] OTHER -> IntVal(d.value)

Originals ==
    [n \in {RTNames[i] : i \in 1..Len(declared["A"])} |->
        Original(declared["A"][CHOOSE i \in 1..Len(declared["A"]) : RTNames[i] = n])]

C4_RoundTrip ==
    \A c \in 1..Len(calls) :
        calls[c].ex = "B" /\ calls[c].status # "running"
        => \E j \in 1..Len(cbLog) :
              /\ cbLog[j].call = c
              /\ cbLog[j].given
              /\ cbLog[j].result = Originals
              /\ cbLog[j].position = position["A"]

(***************************************************************************)
(* C5: when the store write of field k fails during write(), the failing   *)
(* operation is not retried, no store write is issued for a field after    *)
(* k, and the bytes written for the fields before k remain in the store.   *)
(***************************************************************************)
C5_WriteFailureAborts ==
    \A i \in StoreFailures("write") :
        LET o == fsLog[i].oper
            e == calls[o.call].ex
            k == o.idx
            before == Layout(e, k - 1)
        IN  /\ Cardinality({j \in IssuedFor(e) : opLog[j].idx = k}) = 1
            /\ \A j \in IssuedFor(e) : opLog[j].idx <= k
            /\ PendingOf(e) = {}
            /\ Len(consumed[e]) = k - 1
            /\ \A p \in 1..Len(before) : store[start[e] + p] = before[p]

\* The write of the second field fails after a first field put bytes in
\* the file.
C5_Witness ==
    \E i \in StoreFailures("write") :
        LET o == fsLog[i].oper
            e == calls[o.call].ex
        IN  /\ o.idx = 2
            /\ Layout(e, 1) # <<>>
            /\ start[e] > 0

BytesAt(s, off, len, fill) ==
    [i \in 1..len |-> IF off + i <= Len(s) THEN s[off + i] ELSE fill]

\* The values field d may decode to at offset off of file content s.
ReadValues(s, d, off) ==
    IF d.kind \in {"stringLenBE", "stringLenLE"}
    THEN {StrVal(Utf8Decode(BytesAt(s, Min(off + d.len, Max(off, Len(s))),
                                    IF d.kind = "stringLenBE"
                                    THEN ReadUIntBE(BytesAt(s, off, d.len, f1), d.len)
                                    ELSE ReadUIntLE(BytesAt(s, off, d.len, f1), d.len),
                                    f2))) : f1 \in FillBytes, f2 \in FillBytes}
    ELSE {CASE d.kind = "buffer" -> BufVal(BytesAt(s, off, d.len, f))
            [] d.kind = "string" -> StrVal(Utf8Decode(BytesAt(s, off, d.len, f)))
            [] d.kind = "uintBE" -> IntVal(ReadUIntBE(BytesAt(s, off, d.len, f), d.len))
            [] d.kind = "uintLE" -> IntVal(ReadUIntLE(BytesAt(s, off, d.len, f), d.len))
            [] d.kind = "intBE" -> IntVal(ReadIntBE(BytesAt(s, off, d.len, f), d.len))
            [] d.kind = "intLE" -> IntVal(ReadIntLE(BytesAt(s, off, d.len, f), d.len))
            [] OTHER -> BufVal(<<>>) : f \in FillBytes}

\* res holds exactly the first k fields of executor e: their names as keys,
\* each with the value of the last field of that name.
HoldsFields(res, e, k) ==
    /\ DOMAIN res = {declared[e][n].name : n \in 1..k}
    /\ \A n \in 1..k :
          (\A n2 \in (n + 1)..k : declared[e][n2].name # declared[e][n].name)
          => res[declared[e][n].name] \in ReadValues(store, declared[e][n], OffsetOf(e, n))

C8_ExactlyOneOutcome ==
    \A c \in 1..Len(calls) :
        /\ Cardinality({j \in 1..Len(cbLog) : cbLog[j].call = c}) <= 1
        /\ calls[c].status # "running"
           => Cardinality({j \in 1..Len(cbLog) : cbLog[j].call = c}) = 1

C10_ReadResult ==
    \A i \in Successes("read") :
        LET e == calls[cbLog[i].call].ex IN
        /\ cbLog[i].given
        /\ HoldsFields(cbLog[i].result, e, Len(declared[e]))
        /\ cbLog[i].position = OffsetOf(e, Len(declared[e]) + 1)

\* A successful read of a length-prefixed string and an integer that lie
\* inside the file.
C10_Witness ==
    \E i \in Successes("read") :
        LET e == calls[cbLog[i].call].ex IN
        /\ start[e] = 1
        /\ Len(declared[e]) = 2
        /\ declared[e][1].kind = "stringLenBE"
        /\ declared[e][2].kind = "uintBE"
        /\ DOMAIN cbLog[i].result = {"a", "b"}
        /\ cbLog[i].result["a"] = StrVal(<<1, 2>>)
        /\ cbLog[i].result["b"] = IntVal(1)
        /\ cbLog[i].position = 6

(***************************************************************************)
(* C11: a length-prefixed read field performs two sequential store reads.  *)
(* The prefix is read at the cursor; only after it has returned is the     *)
(* payload read issued, at cursor + prefix width and with the decoded      *)
(* prefix value as its length; the bytes of both reads are counted in the  *)
(* field's consumed width; a failed prefix read prevents the payload read. *)
(***************************************************************************)
\* Whether fs operation o has completed with outcome ok.
Done(o, ok) == \E i \in 1..Len(fsLog) : fsLog[i].oper = o /\ fsLog[i].ok = ok

\* The places in opLog of the payload reads issued for the field whose
\* prefix read is opLog[j].
PayloadsOf(j) ==
    {k \in 1..Len(opLog) : /\ opLog[k].call = opLog[j].call
                           /\ opLog[k].idx = opLog[j].idx
                           /\ opLog[k].phase = "payload"}

\* The places in opLog of the prefix reads.
PrefixReads == {j \in 1..Len(opLog) : opLog[j].phase = "prefix"}

C11_TwoSequentialReads ==
    \A j \in PrefixReads :
        LET o == opLog[j]
            e == calls[o.call].ex
            d == declared[e][o.idx]
        IN  /\ o.pos = OffsetOf(e, o.idx)
            /\ o.len = d.len
            /\ Cardinality(PayloadsOf(j)) <= 1
            /\ Done(o, FALSE) => PayloadsOf(j) = {}
            /\ \A k \in PayloadsOf(j) :
                  LET q == opLog[k] IN
                  /\ k > j
                  /\ Done(o, TRUE)
                  /\ q.pos = o.pos + d.len
                  /\ \E f \in FillBytes :
                        q.len = FileReadPrefix(d.kind, BytesAt(store, o.pos, d.len, f), d.len)
                  /\ Done(q, TRUE)
                     => /\ Len(consumed[e]) >= o.idx
                        /\ consumed[e][o.idx] = FsBytesRead(store, o.pos, o.len)
                                                + FsBytesRead(store, q.pos, q.len)

(***************************************************************************)
(* C12: a length-prefixed write field issues one store write at the        *)
(* cursor: the payload's byte length as an unsigned integer of             *)
(* lenFieldWidth bytes in the field's byte order, immediately followed by  *)
(* the payload; the cursor advances by lenFieldWidth + the payload's byte  *)
(* length.  stringLenBE("Hello World!", 2) emits 00 0C and the 12 bytes of *)
(* the text, 14 bytes in all.                                              *)
(***************************************************************************)
\* The places in opLog of the writes of length-prefixed fields.
PrefixedWrites == {j \in 1..Len(opLog) : opLog[j].oper = "write" /\ opLog[j].kind \in LenPrefixed}

\* The payload bytes of the written field d.
PayloadBytes(d) ==
    IF d.kind \in {"stringLenBE", "stringLenLE"} THEN Utf8Encode(d.data) ELSE d.data

HelloWorld == <<72, 101, 108, 108, 111, 32, 87, 111, 114, 108, 100, 33>>

C12_LengthPrefixedWrite ==
    /\ File_writeStringLenBE(HelloWorld, 2) = <<0, 12>> \o HelloWorld
    /\ \A j \in PrefixedWrites :
          LET o == opLog[j]
              e == calls[o.call].ex
              d == declared[e][o.idx]
              payload == PayloadBytes(d)
          IN  /\ \A k \in IssuedFor(e) : opLog[k].idx = o.idx => k = j
              /\ o.pos = OffsetOf(e, o.idx)
              /\ Len(o.data) = d.len + Len(payload)
              /\ SubSeq(o.data, d.len + 1, Len(o.data)) = payload
              /\ IF d.kind \in {"stringLenBE", "bufferLenBE"}
                 THEN ReadUIntBE(SubSeq(o.data, 1, d.len), d.len) = Len(payload)
                 ELSE ReadUIntLE(SubSeq(o.data, 1, d.len), d.len) = Len(payload)
              /\ Done(o, TRUE)
                 => /\ consumed[e][o.idx] = d.len + Len(payload)
                    /\ (PendingOf(e) = {} /\ Len(consumed[e]) = o.idx)
                       => position[e] = o.pos + d.len + Len(payload)

\* A two-byte character written with a two-byte prefix as the second field
\* of a struct, and the write has completed.
C12_Witness ==
    \E j \in PrefixedWrites :
        /\ opLog[j].kind = "stringLenBE"
        /\ opLog[j].idx = 2
        /\ opLog[j].data = <<0, 2, 195, 169>>
        /\ opLog[j].pos > 7
        /\ Done(opLog[j], TRUE)

(***************************************************************************)
(* C13: a bufferLenBE / bufferLenLE read field stores under its name the   *)
(* raw payload bytes that follow the length prefix, consumes prefix width  *)
(* + payload length bytes, and the read completes by invoking the          *)
(* callback.                                                               *)
(***************************************************************************)
\* The places in opLog of the payload reads of bufferLen fields whose two
\* reads have both succeeded.
BufferPayloadsRead ==
    {k \in 1..Len(opLog) : /\ opLog[k].phase = "payload"
                           /\ opLog[k].kind \in {"bufferLenBE", "bufferLenLE"}
                           /\ Done(opLog[k], TRUE)}

\* Whether every fs operation of invocation c so far has succeeded.
AllSucceeded(c) == \A i \in 1..Len(fsLog) : fsLog[i].oper.call = c => fsLog[i].ok

C13_BufferLenRead ==
    \A k \in BufferPayloadsRead :
        LET q == opLog[k]
            e == calls[q.call].ex
        IN  /\ Len(consumed[e]) >= q.idx
            /\ consumed[e][q.idx] = q.lenBytesRead + FsBytesRead(store, q.pos, q.len)
            /\ q.name \in DOMAIN calls[q.call].result
            /\ Len(consumed[e]) = q.idx
               => \E f \in FillBytes :
                     calls[q.call].result[q.name] = BufVal(BytesAt(store, q.pos, q.len, f))
            /\ (AllSucceeded(q.call) /\ PendingOf(e) = {})
               => \E j \in 1..Len(cbLog) :
                     cbLog[j].call = q.call /\ cbLog[j].given /\ cbLog[j].err = NoError

(***************************************************************************)
(* C14: a uint / int write field (BE or LE) whose value does not fit the   *)
(* declared width and signedness fails with RangeError, and no store       *)
(* write is issued for that field.                                         *)
(***************************************************************************)
\* Whether the value of the integer field d fits its width and signedness:
\* the bytes of the width, decoded, give the value back.
Fits(d) ==
    CASE d.kind = "uintBE" -> ReadUIntBE(WriteBE(d.value, d.len), d.len) = d.value
      [] d.kind = "uintLE" -> ReadUIntLE(WriteLE(d.value, d.len), d.len) = d.value
      [] d.kind = "intBE" -> ReadIntBE(WriteBE(d.value, d.len), d.len) = d.value
      [] d.kind = "intLE" -> ReadIntLE(WriteLE(d.value, d.len), d.len) = d.value

IntKinds == {"uintBE", "uintLE", "intBE", "intLE"}

\* The integer fields that do not fit and that invocation c of write() has
\* got to: every field before them has been written.
MisfitsReached(c) ==
    LET e == calls[c].ex IN
    {n \in 1..Len(declared[e]) : /\ mode[e] = "write"
                                 /\ declared[e][n].kind \in IntKinds
                                 /\ ~Fits(declared[e][n])
                                 /\ Len(consumed[e]) >= n - 1}

C14_RangeError ==
    \A c \in 1..Len(calls) :
        \A n \in MisfitsReached(c) :
            /\ \E i \in 1..Len(thrown) :
                  thrown[i] = [idx |-> n, call |-> c, error |-> "RangeError"]
            /\ \A j \in 1..Len(opLog) : opLog[j].call = c => opLog[j].idx < n
            /\ Len(consumed[calls[c].ex]) = n - 1

\* A value below the unsigned range, and a value above the signed range,
\* as the second field of a struct whose first field has been written.
C14_Witness ==
    \E c \in 1..Len(calls) :
        LET e == calls[c].ex IN
        /\ 2 \in MisfitsReached(c)
        /\ consumed[e] # <<>>
        /\ consumed[e][1] > 0
        /\ declared[e][2].kind \in {"uintLE", "intBE"}
        /\ declared[e][2].value \in {-2, 256}

(***************************************************************************)
(* C15: every chaining method of the Write and Read executors appends      *)
(* exactly one descriptor to the end of the queue of the executor it is    *)
(* called on, and performs no store I/O and no cursor change at call time; *)
(* I/O happens only once write() / read() is invoked.                      *)
(***************************************************************************)
\* A step in which a chaining method of executor e is called.
ChainingStep(e) == Len(declared'[e]) = Len(declared[e]) + 1

C15_ChainingFrame ==
    /\ []((\A e \in Execs : ~Called(e)) => (opLog = <<>> /\ pending = {} /\ store = store0))
    /\ [][\A e \in Execs :
             ChainingStep(e)
             => /\ queue'[e] = Append(queue[e], declared'[e][Len(declared'[e])])
                /\ \A e2 \in Execs \ {e} : queue'[e2] = queue[e2]
                /\ UNCHANGED <<store, position, pending, opLog, fsLog, calls, cbLog,
                               thrown, mode, start, consumed>>]_vars

\* Two descriptors chained on an executor that has not been run.
C15_Witness ==
    /\ ~Called("A")
    /\ Len(queue["A"]) = 2
    /\ queue["A"] = declared["A"]
    /\ queue["A"][1] # queue["A"][2]
    /\ position["A"] = start["A"]

(***************************************************************************)
(* C16: a Write or Read executor created without a starting offset,        *)
(* through createWriteStruct() / createReadStruct() or by constructing     *)
(* Struct.Write(file) / Struct.Read(file), starts with cursor 0: its first *)
(* field is issued at offset 0 and its final offset is the sum of the      *)
(* consumed bytes.                                                         *)
(***************************************************************************)
C16_DefaultOffsetZero ==
    \A e \in Execs :
        mode[e] # "none"
        => /\ start[e] = 0
           /\ \A j \in IssuedFor(e) : opLog[j].idx = 1 /\ opLog[j].phase # "payload"
                                      => opLog[j].pos = 0
           /\ \A i \in 1..Len(cbLog) :
                 calls[cbLog[i].call].ex = e /\ cbLog[i].err = NoError
                 => cbLog[i].position = SumSeq(consumed[e])

(***************************************************************************)
(* C17 as stated: for any starting offset, the value reported to the       *)
(* write() callback on success equals the total number of bytes written    *)
(* across the whole struct.                                                *)
(***************************************************************************)
\* The number of bytes the completed fs.write calls of invocation c wrote.
RECURSIVE BytesWritten(_, _)
BytesWritten(log, c) ==
    IF log = <<>> THEN 0
    ELSE BytesWritten(Tail(log), c)
         + (IF Head(log).ok /\ Head(log).oper.oper = "write" /\ Head(log).oper.call = c
            THEN Len(Head(log).oper.data) ELSE 0)

RECURSIVE MsbFirst(_)
MsbFirst(bytes) ==
    IF bytes = <<>> THEN 0
    ELSE 256 * MsbFirst(SubSeq(bytes, 1, Len(bytes) - 1)) + bytes[Len(bytes)]

RECURSIVE LsbFirst(_)
LsbFirst(bytes) == IF bytes = <<>> THEN 0 ELSE Head(bytes) + 256 * LsbFirst(Tail(bytes))

\* The number an integer field of the given kind stands for, read off its
\* bytes.
Denotes(kind, bytes) ==
    LET u == IF kind \in {"uintBE", "intBE", "stringLenBE", "bufferLenBE"}
             THEN MsbFirst(bytes) ELSE LsbFirst(bytes)
        half == Pow256(Len(bytes)) \div 2
    IN  IF kind \in {"intBE", "intLE"} /\ u >= half THEN u - 2 * half ELSE u

\* The integer fields and length prefixes written are laid out per kind.
IntegersWritten ==
    \A j \in 1..Len(opLog) :
        LET o == opLog[j]
            d == declared[calls[o.call].ex][o.idx]
        IN  o.oper = "write"
            => /\ o.kind \in IntKinds
                  => Len(o.data) = d.len /\ Denotes(o.kind, o.data) = d.value
               /\ o.kind \in LenPrefixed
                  => Denotes(o.kind, SubSeq(o.data, 1, d.len)) = Len(o.data) - d.len

\* The integer fields read are decoded per kind from the bytes at their
\* offsets, and so are the length prefixes.
IntegersRead ==
    /\ \A i \in Successes("read") :
          LET e == calls[cbLog[i].call].ex IN
          \A n \in 1..Len(declared[e]) :
              LET d == declared[e][n] IN
              (/\ d.kind \in IntKinds
               /\ \A n2 \in (n + 1)..Len(declared[e]) : declared[e][n2].name # d.name)
              => \E f \in FillBytes :
                    cbLog[i].result[d.name]
                    = IntVal(Denotes(d.kind, BytesAt(store, OffsetOf(e, n), d.len, f)))
    /\ \A j \in PrefixReads : \A k \in PayloadsOf(j) :
          \E f \in FillBytes :
             opLog[k].len = Denotes(opLog[j].kind,
                                    BytesAt(store, opLog[j].pos, opLog[j].len, f))

C18_ByteOrderAndSign ==
    /\ File_writeUIntBE(258, 2) = <<1, 2>>
    /\ File_writeUIntLE(258, 2) = <<2, 1>>
    /\ IntegersWritten
    /\ IntegersRead

\* A negative one-byte intBE followed by uintLE(0x0102, 2), both written;
\* reads of two-byte integers in both byte orders are among the states too.
C18_Witness ==
    \E j \in 1..Len(opLog) :
        /\ opLog[j].kind = "uintLE"
        /\ opLog[j].data = <<2, 1>>
        /\ opLog[j].idx = 2
        /\ Done(opLog[j], TRUE)
        /\ declared[calls[opLog[j].call].ex][1].kind = "intBE"
        /\ declared[calls[opLog[j].call].ex][1].value = -2

(***************************************************************************)
(* C19: after an execution run has completed successfully or has failed,   *)
(* the executor is inert: its descriptor queue is consumed (empty), so a   *)
(* later write() / read() call on the same executor issues no store I/O.   *)
(***************************************************************************)
\* Executor e has been run, and every run of it has ended: the callback
\* was called, or an exception left the library.
RunsEnded(e) ==
    /\ Called(e)
    /\ \A c \in 1..Len(calls) : calls[c].ex = e => calls[c].status # "running"

C19_InertAfterRun ==
    /\ [](\A e \in Execs : RunsEnded(e) => queue[e] = <<>>)
    /\ [][\A e \in Execs :
             (RunsEnded(e) /\ Len(calls') > Len(calls) /\ calls'[Len(calls')].ex = e)
             => (opLog' = opLog /\ pending' = pending)]_vars

(***************************************************************************)
(* C20: the fields executed by a run are exactly the descriptors queued    *)
(* when write() / read() was called: the descriptor list is fixed at       *)
(* chain-build time, and a chaining call made while a run is in progress   *)
(* does not add a field to that run.                                       *)
(***************************************************************************)
C20_FieldsFixedAtCall ==
    \A c \in 1..Len(calls) :
        /\ \A j \in 1..Len(opLog) : opLog[j].call = c => opLog[j].idx <= calls[c].upto
        /\ \A i \in 1..Len(thrown) : thrown[i].call = c => thrown[i].idx <= calls[c].upto
        /\ \A i \in 1..Len(cbLog) :
              (cbLog[i].call = c /\ mode[calls[c].ex] = "read")
              => DOMAIN cbLog[i].result
                 \subseteq {declared[calls[c].ex][n].name : n \in 1..calls[c].upto}

(***************************************************************************)
(* C21: when two read fields of one struct share a name, the result        *)
(* mapping holds the value of the later field under that name, while the   *)
(* cursor still advances by the consumed bytes of both fields.             *)
(***************************************************************************)
\* The pairs of fields of executor e that share a name, the second being
\* the last field of that name.
SameName(e) ==
    {p \in (1..Len(declared[e])) \X (1..Len(declared[e])) :
        /\ p[1] < p[2]
        /\ declared[e][p[1]].name = declared[e][p[2]].name
        /\ \A n \in (p[2] + 1)..Len(declared[e]) :
              declared[e][n].name # declared[e][p[2]].name}

C21_DuplicateNames ==
    \A i \in Successes("read") :
        LET e == calls[cbLog[i].call].ex IN
        \A p \in SameName(e) :
            LET early == declared[e][p[1]]
                late == declared[e][p[2]]
            IN  /\ cbLog[i].result[late.name]
                      \in ReadValues(store, late, OffsetOf(e, p[2]))
                /\ late.name \in DOMAIN cbLog[i].result
                /\ Len(consumed[e]) = Len(declared[e])
                /\ consumed[e][p[1]] = ReadConsumed(store, early, OffsetOf(e, p[1]))
                /\ consumed[e][p[2]] = ReadConsumed(store, late, OffsetOf(e, p[2]))
                /\ cbLog[i].position = start[e] + SumSeq(consumed[e])

\* A buffer and then an integer read under the same name, one byte each:
\* the result holds the integer alone and the cursor is two bytes on.
C21_Witness ==
    \E i \in Successes("read") :
        LET e == calls[cbLog[i].call].ex IN
        /\ Len(declared[e]) = 2
        /\ declared[e][1] = RField("buffer", "a", 1)
        /\ declared[e][2] = RField("uintBE", "a", 1)
        /\ start[e] = 1
        /\ cbLog[i].result = SetResult(EmptyResult, "a", IntVal(1))
        /\ BufVal(<<2>>) \in ReadValues(store, declared[e][1], 1)
        /\ cbLog[i].position = 3

(***************************************************************************)
(* SpecLive: the scenarios of Spec, with the event loop's guarantee that   *)
(* an fs operation that has been issued completes, with success or with    *)
(* an error: its completion callback is run.                               *)
(***************************************************************************)
SpecLive == Init /\ [][Next]_vars /\ WF_vars(FsComplete)

(***************************************************************************)
(* C22: liveness.  If every store operation issued eventually completes    *)
(* (with success or failure), a write() / read() call on an executor with  *)
(* N queued fields eventually invokes its callback, after issuing at most  *)
(* N field operations.                                                     *)
(***************************************************************************)
\* The fields for which invocation c has issued an operation.
FieldsIssued(c) ==
    {j \in 1..Len(opLog) : opLog[j].call = c /\ opLog[j].phase # "payload"}

\* The callback given to invocation c has been invoked.
CalledBack(c) == \E j \in 1..Len(cbLog) : cbLog[j].call = c

C22_EventuallyCallsBack ==
    /\ \A c \in 1..MaxCalls : (Len(calls) >= c) ~> CalledBack(c)
    /\ [](\A c \in 1..Len(calls) : Cardinality(FieldsIssued(c)) <= calls[c].upto)

\* What the code does guarantee: every run ends, by the callback or by an
\* exception thrown out of the library, within N field operations.
RunEventuallyEnds ==
    /\ \A c \in 1..MaxCalls :
          (Len(calls) >= c) ~> (Len(calls) >= c /\ calls[c].status # "running")
    /\ [](\A c \in 1..Len(calls) : Cardinality(FieldsIssued(c)) <= calls[c].upto)

(***************************************************************************)
(* SpecTwo: two Write structs "A" and "B" created on the same file, each   *)
(* built by chaining and run once; their chaining calls, their write()     *)
(* calls and the completions of their fs operations interleave freely.     *)
(***************************************************************************)
\* The start offsets: "B" starts inside what "A" writes when "A" writes
\* more than two bytes, or past everything "A" can write.
TwoStartsA == {0}
TwoStartsB == {2, 7}

\* The chaining calls of these scenarios: "A" writes buffers and integers,
\* "B" writes text, so that a byte in the file tells which struct wrote it.
TwoChainA ==
    \/ Write_buffer("A")
    \/ Write_uintBE("A")

TwoChainB == Write_string("B")

NextTwo ==
    \/ \E pos \in TwoStartsA : CreateWriteStruct("A", pos)
    \/ \E pos \in TwoStartsB : CreateWriteStruct("B", pos)
    \/ ~Called("A") /\ TwoChainA
    \/ ~Called("B") /\ TwoChainB
    \/ \E e \in Execs : ~Called(e) /\ Write_write(e)
    \/ FsComplete

SpecTwo == Init /\ [][NextTwo]_vars

(***************************************************************************)
(* C23: executors built on the same store share only the store: each has   *)
(* its own queue and cursor.  When two Write executors target disjoint     *)
(* byte ranges and run concurrently, under every interleaving of their     *)
(* store completions each range ends up holding exactly its own struct's   *)
(* layout, and each executor reports its own final offset.                 *)
(***************************************************************************)
\* The places of the file (1-based) the declared fields of Write struct e
\* cover.
Range(e) ==
    {p \in 1..(start[e] + Len(Layout(e, Len(declared[e])))) : p > start[e]}

\* The queue of e holds the declared fields not yet taken by a run, and the
\* cursor of e has moved by the bytes of e's own completed fields only.
OwnQueueAndCursor(e) ==
    /\ Len(queue[e]) <= Len(declared[e])
    /\ queue[e] = SubSeq(declared[e], Len(declared[e]) - Len(queue[e]) + 1,
                         Len(declared[e]))
    /\ position[e] = start[e] + SumSeq(consumed[e])

C23_DisjointWritersIndependent ==
    /\ \A e \in Execs : mode[e] = "write" => OwnQueueAndCursor(e)
    /\ \A i \in Successes("write") :
          LET e == calls[cbLog[i].call].ex
              bytes == Layout(e, Len(declared[e]))
          IN  /\ cbLog[i].position = start[e] + Len(bytes)
              /\ (\A f \in Execs \ {e} : mode[f] = "write" => Range(e) \cap Range(f) = {})
                 => \A p \in Range(e) : store[p] = bytes[p - start[e]]

\* Both structs have written two non-empty fields to disjoint ranges, the
\* completions of "B" falling between those of "A".
C23_Witness ==
    /\ Cardinality(Successes("write")) = 2
    /\ Range("A") \cap Range("B") = {}
    /\ Len(fsLog) = 4
    /\ calls[fsLog[1].oper.call].ex = "A"
    /\ calls[fsLog[2].oper.call].ex = "B"
    /\ calls[fsLog[3].oper.call].ex = "B"
    /\ calls[fsLog[4].oper.call].ex = "A"
    /\ \A j \in 1..4 : Len(fsLog[j].oper.data) > 0

\* The case the claim leaves to the caller: structs whose ranges overlap
\* keep each its layout.
OverlappingWritersIndependent ==
    \A i \in Successes("write") :
        LET e == calls[cbLog[i].call].ex
            bytes == Layout(e, Len(declared[e]))
        IN  \A p \in Range(e) : store[p] = bytes[p - start[e]]

(***************************************************************************)
(* Calling a struct method by its name: struct.name(...) queues a field    *)
(* when the prototype defines that name, and is a TypeError otherwise      *)
(* (undefined is not a function), which ends the chained statement.        *)
(***************************************************************************)
\* The field methods Write.prototype and Read.prototype define.
WriteMethods ==
    {"buffer", "string", "stringLenBE", "stringLenLE", "bufferLenBE", "bufferLenLE",
     "stringLen", "uintBE", "uintLE", "intBE", "intLE"}
ReadMethods ==
    {"buffer", "string", "uintBE", "uintLE", "intBE", "intLE", "stringLenBE",
     "stringLenLE", "bufferLenBE", "bufferLenLE"}

\* The kind of field the method queues: Write.prototype.stringLen is
\* Write.prototype.stringLenBE.
MethodKind(method) == IF method = "stringLen" THEN "stringLenBE" ELSE method

\* struct.method(...) with the arguments held in descriptor d.
CallMethod(e, method, d) ==
    /\ mode[e] \in {"write", "read"}
    /\ ~aborted[e]
    /\ IF method \in (IF mode[e] = "write" THEN WriteMethods ELSE ReadMethods)
       THEN /\ queue' = [queue EXCEPT ![e] = Append(@, [d EXCEPT !.kind = MethodKind(method)])]
            /\ declared' = [declared EXCEPT
                               ![e] = Append(@, [d EXCEPT !.kind = MethodKind(method)])]
            /\ UNCHANGED <<thrown, aborted>>
       ELSE /\ thrown' = Append(thrown, [idx |-> Len(declared[e]) + 1, call |-> 0,
                                         error |-> "TypeError"])
            /\ aborted' = [aborted EXCEPT ![e] = TRUE]
            /\ UNCHANGED <<queue, declared>>
    /\ UNCHANGED <<store, store0, mode, position, calls, pending, cbLog, opLog, fsLog,
                   start, consumed, fd, openFds, fsCalls, fileLog>>

(***************************************************************************)
(* SpecReadme: the two chains of the README's Usage section, on a file     *)
(* that starts empty.  Struct "A" is the write chain and struct "B" the    *)
(* read chain, which is run once the write has called back.  Where the     *)
(* README calls uint or stringLen, the call is made by that name or by     *)
(* the name uintBE / stringLenBE.                                          *)
(***************************************************************************)
Hello == <<72, 101, 108, 108, 111>>

\* The method names and arguments of the two chains, in order.
ReadmeWriteChain ==
    << <<"uintLE", WField("", <<>>, 123, 1)>>,
       <<"uint", WField("", <<>>, 321, 2)>>,
       <<"string", WField("", Hello, 0, 0)>>,
       <<"stringLen", WField("", HelloWorld, 0, 2)>> >>

ReadmeReadChain ==
    << <<"uintLE", RField("", "code", 1)>>,
       <<"uint", RField("", "op", 2)>>,
       <<"string", RField("", "title", 5)>>,
       <<"stringLen", RField("", "content", 2)>> >>

\* The names a step of the chain is called by.
NamesFor(method) ==
    CASE method = "uint" -> {"uint", "uintBE"}
      [] method = "stringLen" -> {"stringLen", "stringLenBE"}
      [] OTHER -> {method}

InitReadme ==
    /\ store = <<>>
    /\ store0 = <<>>
    /\ mode = [e \in Execs |-> "none"]
    /\ position = [e \in Execs |-> 0]
    /\ queue = [e \in Execs |-> <<>>]
    /\ calls = <<>>
    /\ pending = {}
    /\ cbLog = <<>>
    /\ thrown = <<>>
    /\ opLog = <<>>
    /\ fsLog = <<>>
    /\ start = [e \in Execs |-> 0]
    /\ declared = [e \in Execs |-> <<>>]
    /\ consumed = [e \in Execs |-> <<>>]
    /\ fd = FirstFd
    /\ openFds = {FirstFd}
    /\ fsCalls = {}
    /\ fileLog = <<>>
    /\ aborted = [e \in Execs |-> FALSE]

\* The next method call of the chain on struct e.
Readme_Chain(e, chain) ==
    /\ ~Called(e)
    /\ Len(declared[e]) < Len(chain)
    /\ LET step == chain[Len(declared[e]) + 1] IN
       \E method \in NamesFor(step[1]) : CallMethod(e, method, step[2])

Readme_write ==
    /\ ~Called("A")
    /\ ~aborted["A"]
    /\ Len(declared["A"]) = Len(ReadmeWriteChain)
    /\ Write_write("A")

Readme_read ==
    /\ ~Called("B")
    /\ ~aborted["B"]
    /\ Len(declared["B"]) = Len(ReadmeReadChain)
    /\ WriteDone
    /\ Read_read("B")

NextReadme ==
    \/ CreateWriteStruct("A", 0)
    \/ CreateReadStruct("B", 0)
    \/ Readme_Chain("A", ReadmeWriteChain)
    \/ Readme_Chain("B", ReadmeReadChain)
    \/ Readme_write
    \/ Readme_read
    \/ FsComplete

SpecReadme == InitReadme /\ [][NextReadme]_vars

(***************************************************************************)
(* C24: the struct builders accept the unsuffixed method names used in     *)
(* the README, uint and stringLen, on both the Write struct and the Read   *)
(* struct, and these behave identically to uintBE and stringLenBE, so that *)
(* the README write chain reports 22 bytes and the README read chain       *)
(* yields code, op, title and content.                                     *)
(***************************************************************************)
\* What the README chains come to where every method call is accepted.
ReadmeOutcome ==
    /\ \A i \in Successes("write") : cbLog[i].position = 22
    /\ \A i \in Successes("read") :
          cbLog[i].result = [n \in {"code", "op", "title", "content"} |->
                                CASE n = "code" -> IntVal(123)
                                  [] n = "op" -> IntVal(321)
                                  [] n = "title" -> StrVal(Hello)
                                  [] n = "content" -> StrVal(HelloWorld)]

C24_ReadmeAliases ==
    /\ \A e \in Execs : ~aborted[e]
    /\ \A i \in 1..Len(thrown) : thrown[i].error # "TypeError"
    /\ \A e \in Execs : \A n \in 1..Len(declared[e]) :
          declared[e][n].kind \in {"uintLE", "uintBE", "string", "stringLenBE"}
    /\ ReadmeOutcome

(***************************************************************************)
(* The File object: open(), close() and isOpen() (lib/file.js).  fileLog   *)
(* has one entry per call of open() / close(): the descriptor the call     *)
(* passed to fs, and what became of the callback it was given.             *)
(***************************************************************************)
\* The most calls of open() / close() made on the File.
MaxFileCalls == 3

\* The descriptor fs.open yields: the lowest one that is free.
NewFd == CHOOSE n \in FirstFd..(FirstFd + Cardinality(openFds)) :
            /\ n \notin openFds
            /\ \A k \in FirstFd..(n - 1) : k \in openFds

\* File.open(filepath, flags, mode, cb) and File.prototype.open(flags,
\* mode, cb): fs.open is called.
File_open ==
    /\ Len(fileLog) < MaxFileCalls
    /\ fileLog' = Append(fileLog, [status |-> "pending", method |-> "open", fdArg |-> Null])
    /\ fsCalls' = fsCalls \cup {Len(fileLog) + 1}
    /\ UNCHANGED <<store, store0, mode, position, queue, calls, pending, cbLog, thrown,
                   opLog, fsLog, start, declared, consumed, fd, openFds, aborted>>

\* The callback of fs.open, on success: this.fd = fd; cb(null, this).
FsOpenDone(i) ==
    /\ i \in fsCalls
    /\ fileLog[i].method = "open"
    /\ fd' = NewFd
    /\ openFds' = openFds \cup {NewFd}
    /\ fileLog' = [fileLog EXCEPT ![i].status = "called"]
    /\ fsCalls' = fsCalls \ {i}
    /\ UNCHANGED <<store, store0, mode, position, queue, calls, pending, cbLog, thrown,
                   opLog, fsLog, start, declared, consumed, aborted>>

\* The callback of an fs call of the File object is handed an error: it
\* goes to a makeCallback wrapper, which throws it; were it passed on, the
\* caller's callback would be invoked with it.
FileFail(i, err) ==
    /\ fsCalls' = fsCalls \ {i}
    /\ IF MakeCallbackThrows(err)
       THEN /\ thrown' = Append(thrown, [idx |-> 0, call |-> 0, error |-> err])
            /\ fileLog' = [fileLog EXCEPT ![i].status = "thrown"]
       ELSE /\ thrown' = thrown
            /\ fileLog' = [fileLog EXCEPT ![i].status = "failed"]
    /\ UNCHANGED <<store, store0, mode, position, queue, calls, pending, cbLog, opLog,
                   fsLog, start, declared, consumed, fd, openFds, aborted>>

\* The callback of fs.open, on failure: if (err) return cb(err).
FsOpenFail(i) ==
    /\ i \in fsCalls
    /\ fileLog[i].method = "open"
    /\ FileFail(i, IOError)

\* File.prototype.close(cb): if (this.fd) fs.close(this.fd, cb); without a
\* descriptor nothing is called, the callback included.
File_close ==
    /\ Len(fileLog) < MaxFileCalls
    /\ IF fd # Null
       THEN /\ fileLog' = Append(fileLog, [status |-> "pending", method |-> "close",
                                           fdArg |-> fd])
            /\ fsCalls' = fsCalls \cup {Len(fileLog) + 1}
       ELSE /\ fileLog' = Append(fileLog, [status |-> "ignored", method |-> "close",
                                           fdArg |-> Null])
            /\ fsCalls' = fsCalls
    /\ UNCHANGED <<store, store0, mode, position, queue, calls, pending, cbLog, thrown,
                   opLog, fsLog, start, declared, consumed, fd, openFds, aborted>>

\* The callback of fs.close, on success: the wrapper calls cb(null).
\* this.fd is not touched.
FsCloseDone(i) ==
    /\ i \in fsCalls
    /\ fileLog[i].method = "close"
    /\ fileLog[i].fdArg \in openFds
    /\ openFds' = openFds \ {fileLog[i].fdArg}
    /\ fileLog' = [fileLog EXCEPT ![i].status = "called"]
    /\ fsCalls' = fsCalls \ {i}
    /\ UNCHANGED <<store, store0, mode, position, queue, calls, pending, cbLog, thrown,
                   opLog, fsLog, start, declared, consumed, fd, aborted>>

\* The callback of fs.close, on failure: the descriptor was not open.
FsCloseFail(i) ==
    /\ i \in fsCalls
    /\ fileLog[i].method = "close"
    /\ fileLog[i].fdArg \notin openFds
    /\ UNCHANGED openFds
    /\ FileFail(i, IOError)

\* File.prototype.isOpen(): return !!this.fd.
File_isOpen == fd # Null

(***************************************************************************)
(* SpecFile: a File that is constructed, then opened and closed in any     *)
(* order; while it is open and no close is under way, one struct is built  *)
(* on it and run once.                                                     *)
(***************************************************************************)
InitFile ==
    /\ store = InitialStore
    /\ store0 = InitialStore
    /\ mode = [e \in Execs |-> "none"]
    /\ position = [e \in Execs |-> 0]
    /\ queue = [e \in Execs |-> <<>>]
    /\ calls = <<>>
    /\ pending = {}
    /\ cbLog = <<>>
    /\ thrown = <<>>
    /\ opLog = <<>>
    /\ fsLog = <<>>
    /\ start = [e \in Execs |-> 0]
    /\ declared = [e \in Execs |-> <<>>]
    /\ consumed = [e \in Execs |-> <<>>]
    /\ fd = Null
    /\ openFds = {}
    /\ fsCalls = {}
    /\ fileLog = <<>>
    /\ aborted = [e \in Execs |-> FALSE]

\* The descriptor of this.fd is open and no fs call on the File is under way.
Usable == fd \in openFds /\ fsCalls = {}

\* The field methods of these scenarios: File.write, a typed write helper
\* and a typed read helper.
FileChain(e) ==
    \/ Write_buffer(e)
    \/ Write_uintBE(e)
    \/ Read_uintBE(e)

NextFile ==
    \/ pending = {} /\ File_open
    \/ pending = {} /\ File_close
    \/ \E i \in fsCalls : FsOpenDone(i)
    \/ \E i \in fsCalls : FsOpenFail(i)
    \/ \E i \in fsCalls : FsCloseDone(i)
    \/ \E i \in fsCalls : FsCloseFail(i)
    \/ \E pos \in LateStarts : Usable /\ CreateWriteStruct("A", pos)
    \/ \E pos \in LateStarts : Usable /\ CreateReadStruct("A", pos)
    \/ Usable /\ ~Called("A") /\ FileChain("A")
    \/ Usable /\ ~Called("A") /\ Write_write("A")
    \/ Usable /\ ~Called("A") /\ Read_read("A")
    \/ Usable /\ FsComplete

SpecFile == InitFile /\ [][NextFile]_vars

(***************************************************************************)
(* C25: when the underlying fs operation fails, the File adapter's         *)
(* asynchronous methods (File.open, read, write and the typed read/write   *)
(* helpers) deliver the error to the caller-supplied callback as its first *)
(* argument.                                                               *)
(***************************************************************************)
C25_ErrorsDelivered ==
    /\ \A i \in 1..Len(fileLog) : fileLog[i].status # "thrown"
    /\ \A i \in 1..Len(fsLog) :
          ~fsLog[i].ok => calls[fsLog[i].oper.call].status = "failed"
    /\ \A j \in 1..Len(thrown) : thrown[j].error # IOError

(***************************************************************************)
(* C27: after any sequence of completed open() and close() calls on a      *)
(* File, isOpen() returns true exactly when the file is currently open:    *)
(* it was opened and has not been closed since.                            *)
(***************************************************************************)
C27_IsOpenIffOpen ==
    fsCalls = {} => (File_isOpen <=> fd \in openFds)

(***************************************************************************)
(* C26: the executor's cursor is modified only by the execution loop when  *)
(* a field completes successfully (advanced by the byte count the store    *)
(* reported): chaining calls leave it unchanged, a failing field leaves it *)
(* unchanged, and it never decreases.                                      *)
(***************************************************************************)
\* A step in which a field of executor e completes with success: the byte
\* count reported for it is recorded.
FieldSucceeds(e) == Len(consumed'[e]) = Len(consumed[e]) + 1

\* A step in which an fs operation of executor e completes with an error.
FieldFails(e) ==
    /\ Len(fsLog') = Len(fsLog) + 1
    /\ ~fsLog'[Len(fsLog')].ok
    /\ calls[fsLog'[Len(fsLog')].oper.call].ex = e

C26_CursorFrame ==
    [][\A e \in Execs :
          mode[e] # "none"
          => /\ position'[e] >= position[e]
             /\ IF FieldSucceeds(e)
                THEN position'[e] = position[e] + consumed'[e][Len(consumed'[e])]
                ELSE position'[e] = position[e]
             /\ ChainingStep(e) => ~FieldSucceeds(e)
             /\ FieldFails(e) => ~FieldSucceeds(e)]_vars

\* The cursor has advanced by a first field; after that a field was chained
\* and the operation of the second field has failed.
C26_Witness ==
    \E e \in Execs :
        /\ Len(consumed[e]) = 1
        /\ position[e] = start[e] + consumed[e][1]
        /\ consumed[e][1] > 0
        /\ Len(declared[e]) = 2
        /\ Len(calls) >= 1
        /\ calls[1].upto = 1
        /\ \E i \in 1..Len(fsLog) : ~fsLog[i].ok /\ fsLog[i].oper.idx = 2

(***************************************************************************)
(* C28: if write() (or read()) is invoked a second time on the same        *)
(* executor while an earlier invocation is still in progress, every queued *)
(* field is still issued to the store exactly once and at the offset       *)
(* start + the sum of the widths of the fields declared before it, and     *)
(* neither callback reports completion while a field operation of that     *)
(* executor is still outstanding.                                          *)
(***************************************************************************)
\* The invocations on executor e that are in progress.
Running(e) == {c \in 1..Len(calls) : calls[c].ex = e /\ calls[c].status = "running"}

\* The offset of declared field n of executor e: start + the widths of the
\* fields declared before it.
RECURSIVE DeclaredOffset(_, _)
DeclaredOffset(e, n) ==
    IF n <= 1 THEN start[e]
    ELSE LET off == DeclaredOffset(e, n - 1)
             d == declared[e][n - 1]
         IN  off + (IF mode[e] = "write" THEN WriteWidth(d) ELSE ReadConsumed(store, d, off))

\* Each field issued for e was issued once, at its declared offset.
IssuedOnceInPlace(e) ==
    \A j \in IssuedFor(e) :
        opLog[j].phase # "payload"
        => /\ Cardinality({k \in IssuedFor(e) :
                              opLog[k].idx = opLog[j].idx /\ opLog[k].phase # "payload"}) = 1
           /\ opLog[j].pos = DeclaredOffset(e, opLog[j].idx)

\* A step in which a callback of executor e is told of success while another
\* invocation on e is in progress.
ReportsDuringOverlap(e) ==
    /\ Len(cbLog') = Len(cbLog) + 1
    /\ calls'[cbLog'[Len(cbLog')].call].ex = e
    /\ cbLog'[Len(cbLog')].err = NoError
    /\ Running(e) \ {cbLog'[Len(cbLog')].call} # {}

C28_ReentrantRunsConsistent ==
    /\ [](\A e \in Execs : Cardinality(Running(e)) >= 2 => IssuedOnceInPlace(e))
    /\ [][\A e \in Execs :
             ReportsDuringOverlap(e)
             => \A o \in pending' : calls'[o.call].ex # e]_vars

\* The part that does hold: a field is never issued twice.
IssuedOnce ==
    \A e \in Execs : \A j \in IssuedFor(e) :
        opLog[j].phase # "payload"
        => Cardinality({k \in IssuedFor(e) :
                           opLog[k].idx = opLog[j].idx /\ opLog[k].phase # "payload"}) = 1

====
